---- MODULE Spec2Model ----
(***************************************************************************)
(* The airdrop relayer (airdrop-project/relayer/relayer.js): the           *)
(* POST /relay-claim handler with its await points, the background         *)
(* tx.wait() callbacks, the module-level registries usedNonces and         *)
(* pendingTxs, and the parts of the Airdrop contract and of the proof      *)
(* server the handler talks to.                                            *)
(*                                                                         *)
(* Spec    : up to NumReq requests handled concurrently, interleaved at    *)
(*           their await points, carrying signed intents.                  *)
(* SpecSeq : one request at a time, every request body (missing fields,    *)
(*           bad signatures, expired deadlines), while the clock runs.     *)
(***************************************************************************)
EXTENDS Integers, Sequences, FiniteSets, Bags, TLC

\* ------------------------------------------------------------------ bounds
NumReq   == 2          \* requests the handler works on concurrently
MaxTime  == 2          \* clock values 1..MaxTime (seconds)
MaxTx    == 1          \* transactions the relayer wallet sends in one run
MaxDigits == 66         \* hex digits of the largest amount encoded
MaxList  == 3          \* entries of an eligibility list
MaxLogs  == 1002       \* log entries appended since the container was emptied
MaxBatch == 2          \* logs in one answer of /api/logs

\* --------------------------------------------------------------- constants
\* JavaScript values of the request body, tagged with their type
Undefined == <<"undefined">>    \* a field absent from req.body
Num(n)    == <<"number", n>>
Str(s)    == <<"string", s>>
Malformed == Str("0x")          \* a signature string that is not a signature
Addresses == {"a1", "a2"}
Amounts   == {1, 2}
Nonces    == {1, 2}               \* nonce values of the intents
Times     == 1..MaxTime
Hashes    == 1..MaxTx

\* whitelist.json of the proof server: (address, amount) pairs
whitelist == {<<"a1", 1>>, <<"a2", 2>>}

\* The relayer wallet is configuration (RELAYER_PRIVATE_KEY): either a
\* dedicated account or the key of a listed recipient.
WalletChoices == {"a1", "w"}

VARIABLES
    now,          \* Math.floor(Date.now() / 1000)
    usedNonces,   \* const usedNonces = new Set()
    pendingTxs,   \* const pendingTxs = new Map(): hash -> {recipient, amount}
    req,          \* the requests being handled (a bag): position in the handler, locals
    tx,           \* transactions sent by the wallet: hash -> record
    nextHash,     \* hash the next sent transaction gets
    claimed,      \* Airdrop.claimed: accounts whose flag is true
    wallet,       \* address of the relayer wallet
    env,          \* process.env: the names of the variables that are set
    proc,         \* the relayer process: "loaded", "initialized", "listening", "exited"
    query,        \* the GET /tx-status request being handled
    list,         \* whitelist.json: the entries {address, amount}, in order
    flip,         \* which way Buffer.compare orders the digests
    served,       \* the last answer of GET /proof/:address/:amount
    call,         \* the last Airdrop.claim call and its result
    merkleRoot,   \* Airdrop.merkleRoot
    owner,        \* Ownable.owner() of the Airdrop contract
    admin,        \* the last owner-only call and its result
    enc,          \* the last evaluation of an encodeLeaf function
    bat,          \* run_bot.bat: the line it is at, its variables, its output
    dash          \* the dashboard: the entries of #log-container, and how
                  \* many were appended since it was last emptied

\* the eligibility list, its tree and their users
treeVars == <<list, flip, served, call, merkleRoot, owner, admin>>

\* the tools run by hand: the leaf encoders and the launcher
toolVars == <<enc, bat, dash>>

vars == <<now, usedNonces, pendingTxs, req, tx, nextHash, claimed, wallet, env, proc,
          query, treeVars, toolVars>>

\* ------------------------------------------------------------ configuration
\* the environment variables the relayer reads for its wallet, its contract
\* and its signing domain
EnvNames == {"RELAYER_PRIVATE_KEY", "CONTRACT_ADDRESS", "CHAIN_ID", "RELAYER_ADDRESS"}

\* process.env.X || fallback
EnvOr(name, value, fallback) == IF name \in env THEN value ELSE fallback

\* EIP-712 domain of the relayer: const DOMAIN = { name, version, chainId,
\* verifyingContract }, built from process.env when the module is loaded
RelayerDomain ==
    [name |-> "AirdropRelayer", version |-> "1",
     chainId |-> EnvOr("CHAIN_ID", 1, 1337),
     verifyingContract |-> EnvOr("RELAYER_ADDRESS", "r", "0x0")]

\* the domain of a relayer that has CHAIN_ID and RELAYER_ADDRESS set
ConfiguredDomain ==
    [name |-> "AirdropRelayer", version |-> "1", chainId |-> 1,
     verifyingContract |-> "r"]

\* ------------------------------------------------------------ JS helpers
\* !x of JavaScript for the values a body field takes here
Falsy(v) == v = Undefined \/ v = Num(0) \/ v = Str("")

\* BigNumber.from(s) for a string of one decimal digit
DecimalDigits == <<"0", "1", "2", "3", "4", "5", "6", "7", "8", "9">>
BigNumberFrom(s) == CHOOSE n \in 0..9 : DecimalDigits[n + 1] = s

\* the address / the uint256 a body value is encoded as: a JSON number by
\* its value, a JSON string by the number it spells
AddressOf(v) == v[2]
Uint256(v)   == IF v[1] = "string" THEN BigNumberFrom(v[2]) ELSE v[2]

\* ----------------------------------------------------- EIP-712 signature
\* _TypedDataEncoder.hash(DOMAIN, TYPES, message): injective in the domain
\* and the four typed fields
\* a typed-data hash whose domain separator leaves out verifyingContract
TypedDataHashNoContract(domain, message) ==
    <<[domain EXCEPT !.verifyingContract = "0x0"],
      AddressOf(message.recipient), Uint256(message.amount),
      Uint256(message.nonce), Uint256(message.deadline)>>

TypedDataHash(domain, message) ==
    <<domain, AddressOf(message.recipient), Uint256(message.amount),
      Uint256(message.nonce), Uint256(message.deadline)>>

\* signer._signTypedData(domain, TYPES, message)
SignTypedData(domain, message, signer) ==
    <<"signature", TypedDataHash(domain, message), signer>>

\* ethers.utils.recoverAddress(digest, signature): the signer for the digest
\* that was signed, an unrelated address for any other digest
recoverAddress(digest, signature) ==
    IF signature[2] = digest THEN signature[3] ELSE "0x?"

\* a verification that accepts the signature of any account over the message
verifySignatureAnySigner(message, signature, expectedSigner) ==
    IF signature = Malformed
    THEN FALSE
    ELSE signature[2] = TypedDataHash(RelayerDomain, message)

verifySignature(message, signature, expectedSigner) ==
    IF signature = Malformed
    THEN FALSE                       \* recoverAddress throws, catch returns false
    ELSE recoverAddress(TypedDataHash(RelayerDomain, message), signature)
             = AddressOf(expectedSigner)

\* ----------------------------------------------------------- proof server
\* tree.getHexProof(leaf) for the leaf of (addr, amount): the proof is
\* identified by the leaf it proves
ProofOf(addr, amount) == <<"proof", addr, amount>>
BadProof == <<"proof", "none", 0>>
NoProof  == <<"undefined">>

\* the body of the proof server's 404
ProofServerError == "Address not found in whitelist or amount mismatch"

\* app.get('/proof/:address/:amount'): 404 unless the pair is listed
ProofServer(addr, amount) ==
    IF <<addr, amount>> \in whitelist
    THEN [status |-> 200, proof |-> ProofOf(addr, amount)]
    ELSE [status |-> 404, proof |-> NoProof]

\* -------------------------------------------------------- Airdrop contract
\* MerkleProof.verify(proof, merkleRoot, keccak256(abi.encodePacked(sender, amount)))
MerkleVerify(proof, sender, amount) ==
    /\ <<sender, amount>> \in whitelist
    /\ proof = ProofOf(sender, amount)

\* Airdrop.claim(amount, proof) sent by sender: does it pass both requires?
ClaimSucceeds(sender, amount, proof) ==
    /\ sender \notin claimed
    /\ MerkleVerify(proof, sender, amount)

\* ------------------------------------------------------------ Merkle tree
\* String.prototype.toLowerCase on the text of an address
toLowerCase(a) ==
    CASE a = "A1" -> "a1" [] a = "A2" -> "a2" [] OTHER -> a

\* the 20 bytes the hex text of an address stands for, as one number; the
\* case of the hex digits makes no difference to the bytes
AddressBytes(a) ==
    CASE toLowerCase(a) = "a1" -> 1 [] toLowerCase(a) = "a2" -> 2
      [] toLowerCase(a) = "a3" -> 3 [] OTHER -> 4

\* encodeLeaf(addr, amount): the address bytes followed by the amount as a
\* 32-byte big-endian integer
encodeLeaf(addr, amount) == <<AddressBytes(addr), amount>>

\* a packing that leaves the amount out of the leaf
encodePackedNoAmount(sender, amount) == <<AddressBytes(sender), 1>>

\* abi.encodePacked(msg.sender, amount) of the contract
encodePacked(sender, amount) == <<AddressBytes(sender), amount>>

\* keccak256, collision-free: the digest is its input between two marks, so
\* that different inputs, and different pairs of digests, give different
\* digests
keccak256(bytes) == <<-1>> \o bytes \o <<-2>>

RECURSIVE LexLess(_, _)
LexLess(a, b) ==
    IF a = <<>> THEN b # <<>>
    ELSE IF b = <<>> THEN FALSE
    ELSE IF Head(a) # Head(b) THEN Head(a) < Head(b)
    ELSE LexLess(Tail(a), Tail(b))

\* Buffer.compare(a, b) < 0 / a < b on bytes32: a total order on the digests
\* that has nothing to do with how they were made; flip selects one of two
Before(a, b) == IF flip THEN LexLess(b, a) ELSE LexLess(a, b)

\* a pair hash that keeps the children in the order of the layer
PairHashUnsorted(left, right) == keccak256(left \o right)

\* merkletreejs with sortPairs: the two children sorted, concatenated, hashed
SortedPairHash(left, right) ==
    IF Before(right, left) THEN keccak256(right \o left)
    ELSE keccak256(left \o right)

\* const leaves = whitelist.map(e =>
\*     keccak256(encodeLeaf(e.address.toLowerCase(), e.amount)))
Leaves(l) == [i \in 1..Len(l) |-> keccak256(encodeLeaf(toLowerCase(l[i][1]), l[i][2]))]

\* a layer step that pairs an unpaired last node with itself
NextLayerDuplicateOdd(nodes) ==
    [i \in 1..((Len(nodes) + 1) \div 2) |->
        IF 2 * i <= Len(nodes)
        THEN SortedPairHash(nodes[2 * i - 1], nodes[2 * i])
        ELSE SortedPairHash(nodes[2 * i - 1], nodes[2 * i - 1])]

\* one layer up: neighbours are paired, an unpaired last node is carried up
\* as it is
NextLayer(nodes) ==
    [i \in 1..((Len(nodes) + 1) \div 2) |->
        IF 2 * i <= Len(nodes)
        THEN SortedPairHash(nodes[2 * i - 1], nodes[2 * i])
        ELSE nodes[2 * i - 1]]

\* new MerkleTree(leaves, keccak256, { sortPairs: true }): the layers, from
\* the leaves to the root
RECURSIVE Layers(_)
Layers(nodes) ==
    IF Len(nodes) <= 1 THEN <<nodes>>
    ELSE <<nodes>> \o Layers(NextLayer(nodes))

\* a root that pairs the leaf of a one-entry list with itself
RootDuplicatingSingle(l) ==
    LET ls == Layers(Leaves(l))
    IN IF Len(l) = 1 THEN SortedPairHash(ls[1][1], ls[1][1]) ELSE ls[Len(ls)][1]

\* tree.getHexRoot()
Root(l) == LET ls == Layers(Leaves(l)) IN ls[Len(ls)][1]

\* the 0-based index of the first leaf equal to leaf, -1 when there is none
IndexOf(leaf, leaves) ==
    IF \E i \in 1..Len(leaves) : leaves[i] = leaf
    THEN (CHOOSE i \in 1..Len(leaves) :
            /\ leaves[i] = leaf
            /\ \A j \in 1..(i - 1) : leaves[j] # leaf) - 1
    ELSE -1

\* the loop of getProof over the layers, from layer k with 0-based index
RECURSIVE ProofFrom(_, _, _)
ProofFrom(layers, k, index) ==
    IF k > Len(layers) THEN <<>>
    ELSE LET layer == layers[k]
             pairIndex == IF index % 2 = 1 THEN index - 1 ELSE index + 1
         IN (IF pairIndex < Len(layer) THEN <<layer[pairIndex + 1]>> ELSE <<>>)
            \o ProofFrom(layers, k + 1, index \div 2)

\* tree.getHexProof(leaf): the siblings from the leaf to the root, empty for
\* a leaf the tree does not have
getHexProof(l, leaf) ==
    LET index == IndexOf(leaf, Leaves(l))
    IN IF index < 0 THEN <<>> ELSE ProofFrom(Layers(Leaves(l)), 1, index)

\* MerkleProof.processProof: fold the proof from the leaf, hashing each pair
\* with the smaller digest first
RECURSIVE processProof(_, _)
processProof(proof, computedHash) ==
    IF proof = <<>> THEN computedHash
    ELSE processProof(Tail(proof),
                      IF Before(computedHash, Head(proof))
                      THEN keccak256(computedHash \o Head(proof))
                      ELSE keccak256(Head(proof) \o computedHash))

\* MerkleProof.verify(proof, root, leaf)
MerkleProofVerify(proof, root, leaf) == processProof(proof, leaf) = root

\* the whitelist of the relayer runs, as the list whitelist.json holds
WhitelistJson == <<<<"a1", 1>>, <<"a2", 2>>>>

\* no /proof request answered yet; no claim call made yet
NoAnswer == [status |-> 0, param |-> "", address |-> "", amount |-> 0,
             proof |-> <<>>, error |-> ""]
NoEvent  == <<>>

\* emit Claimed(msg.sender, amount)
ClaimedEvent(sender, amount) == <<"Claimed", sender, amount>>
NoCall   == [made |-> FALSE, sender |-> "", amount |-> 0, proof |-> <<>>,
             result |-> "", event |-> NoEvent]

\* the account that deploys the contract and so is its first owner; no
\* owner-only call made yet
Deployer == "deployer"
NoAdmin  == [made |-> FALSE, op |-> "", caller |-> "", root |-> <<>>,
             newOwner |-> "", result |-> ""]

\* no encodeLeaf evaluated yet; run_bot.bat not started
NoEncoding == [fn |-> "", address |-> 0, text |-> <<>>,
               amount |-> [negative |-> FALSE, digits |-> 0, lead |-> 0, fill |-> 0],
               threw |-> FALSE, length |-> 0, bytes |-> <<>>]
Unstarted  == [pc |-> "off"]

\* the log container of the dashboard page as it is loaded: no entry
NoLogs == [container |-> <<>>, arrived |-> 0]

\* -------------------------------------------------------------- the state
\* Map.prototype.set / Map.prototype.delete on a function
MapSet(m, k, v) == [x \in (DOMAIN m) \cup {k} |-> IF x = k THEN v ELSE m[x]]
MapDelete(m, k) == [x \in (DOMAIN m) \ {k} |-> m[x]]

\* no GET /tx-status request is being handled
NoQuery == [pc |-> "idle"]

Init ==
    /\ now = 1
    /\ usedNonces = {}
    /\ pendingTxs = <<>>
    /\ req = EmptyBag
    /\ tx = <<>>
    /\ nextHash = 1
    /\ claimed = {}
    /\ wallet \in WalletChoices
    /\ env = EnvNames
    /\ proc = "listening"
    /\ query = NoQuery
    /\ list = WhitelistJson
    /\ flip = FALSE
    /\ served = NoAnswer
    /\ call = NoCall
    /\ merkleRoot = Root(list)
    /\ owner = Deployer
    /\ admin = NoAdmin
    /\ enc = NoEncoding
    /\ bat = Unstarted
    /\ dash = NoLogs

\* ------------------------------------------------------------ the inputs
Messages ==
    [recipient : {Str(a) : a \in Addresses}, amount : {Num(n) : n \in Amounts},
     nonce : {Num(n) : n \in Nonces}, deadline : {Num(t) : t \in Times}]

MessageOf(b) ==
    [recipient |-> b.recipient, amount |-> b.amount,
     nonce |-> b.nonce, deadline |-> b.deadline]

WithSignature(m, sg) ==
    [recipient |-> m.recipient, amount |-> m.amount, nonce |-> m.nonce,
     deadline |-> m.deadline, signature |-> sg]

\* the intent m signed by its recipient under the domain of the configured
\* relayer
Intent(m) == WithSignature(m, SignTypedData(ConfiguredDomain, m, AddressOf(m.recipient)))

\* signatures a caller can attach to message m: a string that is no
\* signature, the recipient's signature over m or over m with the next
\* nonce, or the signature of the other accounts over m
SignaturesFor(m) ==
    {Malformed,
     SignTypedData(ConfiguredDomain,
                   [m EXCEPT !.nonce = Num((Uint256(m.nonce) % 2) + 1)],
                   AddressOf(m.recipient))}
    \cup {SignTypedData(ConfiguredDomain, m, s) : s \in Addresses}

FullBodies == UNION {{WithSignature(m, sg) : sg \in SignaturesFor(m)} : m \in Messages}

Fields == {"recipient", "amount", "nonce", "deadline", "signature"}

\* req.body: all five fields, or a signed intent with one of them left out
Bodies ==
    FullBodies \cup
    {[Intent(m) EXCEPT ![f] = Undefined] : m \in Messages, f \in Fields}

\* the bodies of the concurrent runs: the intents of the listed recipients
\* and of one pair that is not listed, signed and not yet expired, and two
\* bodies that fail the checks
ListedMessages ==
    {m \in Messages : /\ <<AddressOf(m.recipient), Uint256(m.amount)>> \in whitelist
                      /\ m.deadline = Num(MaxTime)}

UnlistedMessage ==
    [recipient |-> Str("a2"), amount |-> Num(1), nonce |-> Num(1),
     deadline |-> Num(MaxTime)]

IntentBodies ==
    {Intent(m) : m \in ListedMessages \cup {UnlistedMessage}}
    \cup {[Intent(m) EXCEPT !.signature = Malformed] :
            m \in {x \in ListedMessages : x.recipient = Str("a1") /\ x.nonce = Num(1)}}
    \cup {[Intent(m) EXCEPT !.amount = Undefined] :
            m \in {x \in ListedMessages : x.recipient = Str("a1") /\ x.nonce = Num(1)}}

\* ------------------------------------------------- POST /relay-claim
\* the responses of the handler
MissingFields  == "Missing required fields"
Expired        == "Request expired"
NonceUsed      == "Nonce already used"
InvalidSig     == "Invalid signature"
AlreadyClaimed == "Already claimed"
NotEligible    == "Invalid proof or not eligible"
\* 'Failed to relay transaction' with details: error.message
FailedClaimed  == "Failed to relay transaction: claimed() call failed"
FailedProof    == "Failed to relay transaction: Failed to fetch proof from server"
FailedClaim    == "Failed to relay transaction: claim() send failed"
Success        == "Claim transaction submitted successfully"

\* Validate without the deadline check
ValidateNoExpiry(b, currentTime, nonces) ==
    IF \E f \in Fields : Falsy(b[f]) THEN MissingFields
    ELSE IF b.nonce \in nonces THEN NonceUsed
    ELSE IF ~verifySignature(MessageOf(b), b.signature, b.recipient) THEN InvalidSig
    ELSE "ok"

\* the synchronous checks before the first await: the rejection, or "ok"
Validate(b, currentTime, nonces) ==
    IF \E f \in Fields : Falsy(b[f]) THEN MissingFields
    ELSE IF currentTime > Uint256(b.deadline) THEN Expired
    ELSE IF b.nonce \in nonces THEN NonceUsed
    ELSE IF ~verifySignature(MessageOf(b), b.signature, b.recipient) THEN InvalidSig
    ELSE "ok"

\* the requests being handled
Handling == BagToSet(req)

\* request q moves on to q2 / is finished
Becomes(q, q2) == req' = (req (-) SetToBag({q})) (+) SetToBag({q2})
Finished(q)    == req' = req (-) SetToBag({q})

\* res.json(...) / res.status(...).json(...) of request q
Respond(q, text) ==
    Becomes(q, [pc |-> "responded", resp |-> text,
                nonce |-> IF q.pc = "received" THEN q.body.nonce ELSE q.nonce])

\* while a handler runs between two of its await points nothing else runs
\* (run to completion): no request is between its parsed body and its first
\* await, or between its response and its return
Quiet ==
    /\ \A q \in Handling : q.pc \notin {"received", "responded"}
    /\ query.pc # "responded"

\* a request arrives: express.json() has parsed req.body; at most cap
\* requests are handled at a time
Arrive(b, cap) ==
    /\ proc = "listening"
    /\ Quiet
    /\ BagCardinality(req) < cap
    /\ req' = req (+) SetToBag({[pc |-> "received", body |-> b]})
    /\ UNCHANGED <<now, usedNonces, pendingTxs, tx, nextHash, claimed, wallet, env, proc, query, treeVars, toolVars>>

\* a handler that adds the nonce right after the nonce check and leaves it
\* there when the signature is rejected
RelayClaimReserving(q) ==
    /\ q.pc = "received"
    /\ LET b == q.body
           v == Validate(b, now, usedNonces)
       IN /\ IF v = "ok"
             THEN Becomes(q, [pc |-> "awaitClaimed", recipient |-> b.recipient,
                              amount |-> b.amount, nonce |-> b.nonce,
                              deadline |-> b.deadline])
             ELSE Respond(q, v)
          /\ usedNonces' = IF v = InvalidSig THEN usedNonces \cup {b.nonce}
                           ELSE usedNonces
    /\ UNCHANGED <<now, pendingTxs, tx, nextHash, claimed, wallet, env, proc, query, treeVars, toolVars>>

\* the handler runs to its first await, contract.claimed(recipient)
RelayClaim(q) ==
    /\ q.pc = "received"
    /\ LET b == q.body
           v == Validate(b, now, usedNonces)
       IN IF v = "ok"
          THEN Becomes(q, [pc |-> "awaitClaimed", recipient |-> b.recipient,
                           amount |-> b.amount, nonce |-> b.nonce,
                           deadline |-> b.deadline])
          ELSE Respond(q, v)
    /\ UNCHANGED <<now, usedNonces, pendingTxs, tx, nextHash, claimed, wallet, env, proc, query, treeVars, toolVars>>

\* a catch block that leaves the nonce in the set
CatchKeeps(nonces, n) == nonces

\* the nonce set after the catch block:
\* if (req.body.nonce) usedNonces.delete(req.body.nonce)
CatchNonces(nonces, n) == IF Falsy(n) THEN nonces ELSE nonces \ {n}

\* catch (error) { ... } of the handler
Catch(q, text) ==
    /\ usedNonces' = CatchNonces(usedNonces, q.nonce)
    /\ Respond(q, text)

\* await contract.claimed(recipient) settles
ClaimedReturns(q) ==
    /\ Quiet
    /\ q.pc = "awaitClaimed"
    /\ \E outcome \in {"value", "throw"} :
         IF outcome = "throw"
         THEN Catch(q, FailedClaimed)
         ELSE IF AddressOf(q.recipient) \in claimed
              THEN /\ Respond(q, AlreadyClaimed)
                   /\ UNCHANGED usedNonces
              ELSE /\ Becomes(q, [q EXCEPT !.pc = "awaitProof"])
                   /\ UNCHANGED usedNonces
    /\ UNCHANGED <<now, pendingTxs, tx, nextHash, claimed, wallet, env, proc, query, treeVars, toolVars>>

\* no answer from the proof source (connection refused, timeout)
Unreachable == [status |-> 0, proof |-> NoProof]

\* what the handler makes of answer a: axios rejects for a status other than
\* 2xx and getProofFromServer rethrows 'Failed to fetch proof from server',
\* which the catch block reports; a 200 without proof is 'Invalid proof or not
\* eligible'; any other 200 goes on ("ok")
ProofOutcome(a) ==
    IF a.status # 200 THEN FailedProof
    ELSE IF a.proof = NoProof THEN NotEligible
    ELSE "ok"

\* what GET proofServerUrl/proof/address/amount can answer: the proof
\* server's answer, no answer (status 0), or the 200 of another proof source
\* (PROOF_SERVER_URL) carrying one of the values in foreign as its proof
ProofAnswers(addr, amount, foreign) ==
    {ProofServer(addr, amount), Unreachable}
    \cup {[status |-> 200, proof |-> p] : p \in foreign}

\* the nonce set after "usedNonces.add(nonce)"
MarkUsed(nonces, n) == nonces \cup {n}

\* a handler that adds the nonce before it looks at proofData.proof
ProofReturnsMarkFirst(q, foreign) ==
    /\ Quiet
    /\ q.pc = "awaitProof"
    /\ \E a \in ProofAnswers(AddressOf(q.recipient), Uint256(q.amount), foreign) :
         IF a.status # 200
         THEN Catch(q, FailedProof)
         ELSE /\ usedNonces' = MarkUsed(usedNonces, q.nonce)
              /\ IF a.proof = NoProof
                 THEN Respond(q, NotEligible)
                 ELSE Becomes(q, [pc |-> "awaitClaim", recipient |-> q.recipient,
                                  amount |-> q.amount, nonce |-> q.nonce,
                                  deadline |-> q.deadline, proof |-> a.proof])
    /\ UNCHANGED <<now, pendingTxs, tx, nextHash, claimed, wallet, env, proc, query, treeVars, toolVars>>

\* await getProofFromServer(recipient, amount) settles
ProofReturns(q, foreign) ==
    /\ Quiet
    /\ q.pc = "awaitProof"
    /\ \E a \in ProofAnswers(AddressOf(q.recipient), Uint256(q.amount), foreign) :
         IF ProofOutcome(a) = FailedProof
         THEN Catch(q, FailedProof)
         ELSE IF ProofOutcome(a) = NotEligible
              THEN /\ Respond(q, NotEligible)
                   /\ UNCHANGED usedNonces
              ELSE /\ usedNonces' = MarkUsed(usedNonces, q.nonce)
                   /\ Becomes(q, [pc |-> "awaitClaim", recipient |-> q.recipient,
                                  amount |-> q.amount, nonce |-> q.nonce,
                                  deadline |-> q.deadline, proof |-> a.proof])
    /\ UNCHANGED <<now, pendingTxs, tx, nextHash, claimed, wallet, env, proc, query, treeVars, toolVars>>

\* await contract.claim(amount, proof, {gasLimit}) settles: the wallet's
\* transaction was sent, or sending threw
ClaimReturns(q) ==
    /\ Quiet
    /\ q.pc = "awaitClaim"
    /\ \E outcome \in {"sent", "throw"} :
         IF outcome = "throw"
         THEN /\ Catch(q, FailedClaim)
              /\ UNCHANGED <<pendingTxs, tx, nextHash>>
         ELSE /\ nextHash <= MaxTx
              /\ tx' = MapSet(tx, nextHash,
                          [nonce |-> q.nonce, amount |-> q.amount,
                           proof |-> q.proof, st |-> "sent"])
              /\ pendingTxs' = MapSet(pendingTxs, nextHash,
                          [recipient |-> q.recipient, amount |-> q.amount])
              /\ nextHash' = nextHash + 1
              /\ Respond(q, Success)
              /\ UNCHANGED usedNonces
    /\ UNCHANGED <<now, claimed, wallet, env, proc, query, treeVars, toolVars>>

\* the handler returns after its response
Return(q) ==
    /\ q.pc = "responded"
    /\ Finished(q)
    /\ UNCHANGED <<now, usedNonces, pendingTxs, tx, nextHash, claimed, wallet, env, proc, query, treeVars, toolVars>>

\* the record of a transaction once the ledger has executed it, with the
\* event it emitted
Executed(t, st, event) == [nonce |-> t.nonce, st |-> st, event |-> event]

\* the ledger executes transaction h, Airdrop.claim with msg.sender = wallet,
\* after the wallet's earlier transactions
Mine(h) ==
    /\ Quiet
    /\ h \in DOMAIN tx
    /\ tx[h].st = "sent"
    /\ \A g \in DOMAIN tx : g < h => tx[g].st # "sent"
    /\ IF ClaimSucceeds(wallet, Uint256(tx[h].amount), tx[h].proof)
       THEN /\ claimed' = claimed \cup {wallet}
            /\ tx' = [tx EXCEPT ![h] = Executed(tx[h], "mined",
                                      ClaimedEvent(wallet, Uint256(tx[h].amount)))]
       ELSE /\ tx' = [tx EXCEPT ![h] = Executed(tx[h], "reverted", NoEvent)]
            /\ UNCHANGED claimed
    /\ UNCHANGED <<now, usedNonces, pendingTxs, req, nextHash, wallet, env, proc, query, treeVars, toolVars>>

\* tx.wait().then(receipt => ...)
WaitThen(h) ==
    /\ Quiet
    /\ h \in DOMAIN tx
    /\ tx[h].st = "mined"
    /\ pendingTxs' = MapDelete(pendingTxs, h)
    /\ tx' = [tx EXCEPT ![h].st = "confirmed"]
    /\ UNCHANGED <<now, usedNonces, req, nextHash, claimed, wallet, env, proc, query, treeVars, toolVars>>

\* a rejection callback that leaves the nonce in the set
ReleaseKeeps(nonces, n) == nonces

\* the nonce set after the rejection callback: usedNonces.delete(nonce)
ReleaseNonce(nonces, n) == nonces \ {n}

\* tx.wait().catch(error => ...)
WaitCatch(h) ==
    /\ Quiet
    /\ h \in DOMAIN tx
    /\ tx[h].st = "reverted"
    /\ pendingTxs' = MapDelete(pendingTxs, h)
    /\ usedNonces' = ReleaseNonce(usedNonces, tx[h].nonce)
    /\ tx' = [tx EXCEPT ![h].st = "failed"]
    /\ UNCHANGED <<now, req, nextHash, claimed, wallet, env, proc, query, treeVars, toolVars>>

\* the clock advances
Tick ==
    /\ Quiet
    /\ now < MaxTime
    /\ now' = now + 1
    /\ UNCHANGED <<usedNonces, pendingTxs, req, tx, nextHash, claimed, wallet, env, proc, query, treeVars, toolVars>>

\* ------------------------------------------------- GET /tx-status/:hash
\* the responses of the handler: status 'pending', 'not_found', 'confirmed',
\* 'failed', or the 500 'Failed to check transaction status'
StatusError == "Failed to check transaction status"

\* provider.getTransactionReceipt(hash): null until the ledger has executed
\* the transaction, then the receipt with status 1 or 0
Receipt(h) ==
    IF h \notin DOMAIN tx \/ tx[h].st = "sent" THEN "null"
    ELSE IF tx[h].st \in {"mined", "confirmed"} THEN "1"
    ELSE "0"

\* res.json({ status: ... }) of the status request; "returned" records
\* whether the hash had been returned by /relay-claim when the request came
Report(h, returned, status) ==
    query' = [pc |-> "responded", hash |-> h, returned |-> returned,
              status |-> status]

\* a handler that asks the provider without looking at pendingTxs
TxStatusReceiptOnly(h) ==
    /\ proc = "listening"
    /\ Quiet
    /\ query = NoQuery
    /\ query' = [pc |-> "awaitReceipt", hash |-> h, returned |-> h \in DOMAIN tx]
    /\ UNCHANGED <<now, usedNonces, pendingTxs, req, tx, nextHash, claimed, wallet, env, proc, treeVars, toolVars>>

\* the handler runs to its response or to its await of the receipt
TxStatus(h) ==
    /\ proc = "listening"
    /\ Quiet
    /\ query = NoQuery
    /\ IF h \in DOMAIN pendingTxs
       THEN Report(h, TRUE, "pending")
       ELSE query' = [pc |-> "awaitReceipt", hash |-> h, returned |-> h \in DOMAIN tx]
    /\ UNCHANGED <<now, usedNonces, pendingTxs, req, tx, nextHash, claimed, wallet, env, proc, treeVars, toolVars>>

\* the status the handler derives from the receipt
StatusOf(receipt) ==
    IF receipt = "null" THEN "not_found"
    ELSE IF receipt = "1" THEN "confirmed" ELSE "failed"

\* await provider.getTransactionReceipt(hash) settles
ReceiptReturns ==
    /\ Quiet
    /\ query.pc = "awaitReceipt"
    /\ \E outcome \in {"value", "throw"} :
         IF outcome = "throw"
         THEN Report(query.hash, query.returned, StatusError)
         ELSE Report(query.hash, query.returned, StatusOf(Receipt(query.hash)))
    /\ UNCHANGED <<now, usedNonces, pendingTxs, req, tx, nextHash, claimed, wallet, env, proc, treeVars, toolVars>>

\* the status handler returns after its response
QueryReturn ==
    /\ query.pc = "responded"
    /\ query' = NoQuery
    /\ UNCHANGED <<now, usedNonces, pendingTxs, req, tx, nextHash, claimed, wallet, env, proc, treeVars, toolVars>>

\* --------------------------------------------------------------- startup
\* the variables initializeProvider() throws for when they are not set
Required == {"RELAYER_PRIVATE_KEY", "CONTRACT_ADDRESS"}

\* initializeProvider(): logs the error and exits the process when a
\* required variable is not set
initializeProvider ==
    /\ proc = "loaded"
    /\ proc' = IF Required \subseteq env THEN "initialized" ELSE "exited"
    /\ UNCHANGED <<now, usedNonces, pendingTxs, req, tx, nextHash, claimed, wallet, env, query, treeVars, toolVars>>

\* app.listen(PORT, ...): the handlers start to receive requests
listen ==
    /\ proc = "initialized"
    /\ proc' = "listening"
    /\ UNCHANGED <<now, usedNonces, pendingTxs, req, tx, nextHash, claimed, wallet, env, query, treeVars, toolVars>>

\* concurrent requests carrying signed intents
Next ==
    \/ \E b \in IntentBodies : Arrive(b, NumReq)
    \/ \E q \in Handling : RelayClaim(q)
    \/ \E q \in Handling : ClaimedReturns(q)
    \/ \E q \in Handling : ProofReturns(q, {NoProof})
    \/ \E q \in Handling : ClaimReturns(q)
    \/ \E q \in Handling : Return(q)
    \/ \E h \in Hashes : Mine(h)
    \/ \E h \in Hashes : WaitThen(h)
    \/ \E h \in Hashes : WaitCatch(h)

Spec == Init /\ [][Next]_vars

\* one request at a time, with every request body, while the clock runs
NextSeq ==
    \/ \E b \in Bodies : Arrive(b, 1)
    \/ \E q \in Handling : RelayClaim(q)
    \/ \E q \in Handling : ClaimedReturns(q)
    \/ \E q \in Handling : ProofReturns(q, {NoProof, BadProof})
    \/ \E q \in Handling : ClaimReturns(q)
    \/ \E q \in Handling : Return(q)
    \/ \E h \in Hashes : Mine(h)
    \/ \E h \in Hashes : WaitThen(h)
    \/ \E h \in Hashes : WaitCatch(h)
    \/ Tick

SpecSeq == Init /\ [][NextSeq]_vars

\* the intent of a1 for its listed amount with nonce 1, and the same intent
\* with the nonce written as the string "1", with nonce 0, with amount 0
ListedIntent ==
    [recipient |-> Str("a1"), amount |-> Num(1), nonce |-> Num(1),
     deadline |-> Num(MaxTime)]

VariantMessages ==
    {[ListedIntent EXCEPT !.nonce = Str("1")],
     [ListedIntent EXCEPT !.nonce = Num(0)],
     [ListedIntent EXCEPT !.amount = Num(0)]}

ForwardBodies == IntentBodies \cup {Intent(m) : m \in VariantMessages}

\* the proofs a proof source other than the proof server (PROOF_SERVER_URL)
\* can answer with: none, or the proof of any entry of the list
EntryProofs == {NoProof} \cup {ProofOf(e[1], e[2]) : e \in whitelist}

\* one request at a time, carrying a signed intent, with such a proof source
NextForward ==
    \/ \E b \in ForwardBodies : Arrive(b, 1)
    \/ \E q \in Handling : RelayClaim(q)
    \/ \E q \in Handling : ClaimedReturns(q)
    \/ \E q \in Handling : ProofReturns(q, EntryProofs)
    \/ \E q \in Handling : ClaimReturns(q)
    \/ \E q \in Handling : Return(q)
    \/ \E h \in Hashes : Mine(h)
    \/ \E h \in Hashes : WaitThen(h)
    \/ \E h \in Hashes : WaitCatch(h)

SpecForward == Init /\ [][NextForward]_vars

\* the relayer from the load of its module, with any subset of its
\* environment variables set
InitRun ==
    /\ now = 1
    /\ usedNonces = {}
    /\ pendingTxs = <<>>
    /\ req = EmptyBag
    /\ tx = <<>>
    /\ nextHash = 1
    /\ claimed = {}
    /\ wallet \in WalletChoices
    /\ env \in SUBSET EnvNames
    /\ proc = "loaded"
    /\ query = NoQuery
    /\ list = WhitelistJson
    /\ flip = FALSE
    /\ served = NoAnswer
    /\ call = NoCall
    /\ merkleRoot = Root(list)
    /\ owner = Deployer
    /\ admin = NoAdmin
    /\ enc = NoEncoding
    /\ bat = Unstarted
    /\ dash = NoLogs

\* the domains a caller signs under: the relayer's, and each domain that
\* differs from it in one field
ClientDomains ==
    {RelayerDomain,
     [RelayerDomain EXCEPT !.name = "OtherRelayer"],
     [RelayerDomain EXCEPT !.version = "2"],
     [RelayerDomain EXCEPT !.chainId = 5],
     [RelayerDomain EXCEPT !.verifyingContract = "x"]}

\* the listed recipients' intents, signed by the recipient under domain d
DomainBodies ==
    {WithSignature(m, SignTypedData(d, m, AddressOf(m.recipient))) :
        m \in {x \in ListedMessages : x.nonce = Num(1)}, d \in ClientDomains}

\* startup, then one claim request and one status request at a time
NextRun ==
    \/ initializeProvider
    \/ listen
    \/ \E b \in DomainBodies : Arrive(b, 1)
    \/ \E q \in Handling : RelayClaim(q)
    \/ \E q \in Handling : ClaimedReturns(q)
    \/ \E q \in Handling : ProofReturns(q, {NoProof})
    \/ \E q \in Handling : ClaimReturns(q)
    \/ \E q \in Handling : Return(q)
    \/ \E h \in Hashes : Mine(h)
    \/ \E h \in Hashes : WaitThen(h)
    \/ \E h \in Hashes : WaitCatch(h)
    \/ \E h \in Hashes : TxStatus(h)
    \/ ReceiptReturns
    \/ QueryReturn

SpecRun == InitRun /\ [][NextRun]_vars

\* ------------------------------------- proof server and contract on a list
\* the state of the relayer, which takes no part here
relayVars == <<now, usedNonces, pendingTxs, req, tx, nextHash, wallet, env, proc, query>>

\* the address texts whitelist.json can hold (a2 in both cases), the texts a
\* /proof request can carry, and the accounts that send claims
TreeAddresses == {"a1", "a2", "A2"}
RequestAddresses == {"a1", "A1", "a2", "A2"}
Accounts == {"a1", "a2"}
Pairs == TreeAddresses \X Amounts

\* the lists whitelist.json can hold: 1 to MaxList entries, in any order,
\* repeated entries and repeated addresses included
Lists == UNION {[1..n -> Pairs] : n \in 1..MaxList}

\* the entries of list l
Entries(l) == {l[i] : i \in 1..Len(l)}

\* the leaf of the proof server and the leaf of the contract
Leaf(addr, amount) == keccak256(encodeLeaf(addr, amount))
ContractLeaf(sender, amount) == keccak256(encodePacked(sender, amount))

\* the body of the 404 answer of /proof
NotFound == "Address not found in whitelist or amount mismatch"

\* a lookup that compares the address only
findByAddress(l, addr, amount) ==
    \E i \in 1..Len(l) : toLowerCase(l[i][1]) = addr

\* whitelist.find(e => e.address.toLowerCase() === addr && e.amount === amount)
\* finds an entry
find(l, addr, amount) ==
    \E i \in 1..Len(l) : toLowerCase(l[i][1]) = addr /\ l[i][2] = amount

\* app.get('/proof/:address/:amount') of the proof server; in a run the
\* proofs are requested before the claims are sent
ProofRoute(address, amount) ==
    /\ ~call.made
    /\ LET addr == toLowerCase(address)
       IN served' =
            IF find(list, addr, amount)
            THEN [status |-> 200, param |-> address, address |-> addr,
                  amount |-> amount,
                  proof |-> getHexProof(list, Leaf(addr, amount)), error |-> ""]
            ELSE [status |-> 404, param |-> address, address |-> addr,
                  amount |-> amount, proof |-> <<>>, error |-> NotFound]
    /\ UNCHANGED <<relayVars, toolVars, claimed, list, flip, call, merkleRoot, owner, admin>>

\* the revert reasons of Airdrop.claim, and its success
RevertClaimed == "Already claimed"
RevertProof   == "Invalid proof"
Claimed       == "Claimed"

\* a claim without the proof check
ClaimResultNoVerify(sender, amount, proof) ==
    IF sender \in claimed THEN RevertClaimed ELSE Claimed

\* Airdrop.claim(amount, proof) sent by sender
ClaimResult(sender, amount, proof) ==
    IF sender \in claimed THEN RevertClaimed
    ELSE IF ~MerkleProofVerify(proof, merkleRoot, ContractLeaf(sender, amount))
         THEN RevertProof
         ELSE Claimed

\* a claim that succeeds without emitting the event
ClaimWithNoEvent(sender, amount, proof) ==
    /\ LET result == ClaimResult(sender, amount, proof)
       IN /\ call' = [made |-> TRUE, sender |-> sender, amount |-> amount,
                      proof |-> proof, result |-> result, event |-> NoEvent]
          /\ claimed' = IF result = Claimed THEN claimed \cup {sender} ELSE claimed
    /\ UNCHANGED <<relayVars, toolVars, list, flip, served, merkleRoot, owner, admin>>

\* a claim that succeeds without setting the flag of the caller
ClaimWithNoFlag(sender, amount, proof) ==
    /\ LET result == ClaimResult(sender, amount, proof)
       IN call' = [made |-> TRUE, sender |-> sender, amount |-> amount,
                   proof |-> proof, result |-> result,
                   event |-> IF result = Claimed
                             THEN ClaimedEvent(sender, amount) ELSE NoEvent]
    /\ UNCHANGED <<relayVars, toolVars, claimed, list, flip, served, merkleRoot, owner, admin>>

\* a claim that keeps one flag for all accounts
ClaimWithSharedFlag(sender, amount, proof) ==
    /\ LET result == ClaimResult(sender, amount, proof)
       IN /\ call' = [made |-> TRUE, sender |-> sender, amount |-> amount,
                      proof |-> proof, result |-> result,
                      event |-> IF result = Claimed
                                THEN ClaimedEvent(sender, amount) ELSE NoEvent]
          /\ claimed' = IF result = Claimed THEN {"a1", "a2"} ELSE claimed
    /\ UNCHANGED <<relayVars, toolVars, list, flip, served, merkleRoot, owner, admin>>

\* Airdrop.claim(amount, proof) called by sender: the flag is set and the
\* event emitted when no require fails
ClaimWith(sender, amount, proof) ==
    /\ LET result == ClaimResult(sender, amount, proof)
       IN /\ call' = [made |-> TRUE, sender |-> sender, amount |-> amount,
                      proof |-> proof, result |-> result,
                      event |-> IF result = Claimed
                                THEN ClaimedEvent(sender, amount) ELSE NoEvent]
          /\ claimed' = IF result = Claimed THEN claimed \cup {sender} ELSE claimed
    /\ UNCHANGED <<relayVars, toolVars, list, flip, served, merkleRoot, owner, admin>>

\* sender calls Airdrop.claim(amount, proof) with the proof last served
Claim(sender, amount) ==
    /\ served # NoAnswer
    /\ ClaimWith(sender, amount, served.proof)

\* every list, both orders of the digests; the contract is deployed with the
\* root of the tree the deploy script builds over the same whitelist.json
InitTree ==
    /\ now = 1
    /\ usedNonces = {}
    /\ pendingTxs = <<>>
    /\ req = EmptyBag
    /\ tx = <<>>
    /\ nextHash = 1
    /\ claimed = {}
    /\ wallet = "w"
    /\ env = EnvNames
    /\ proc = "loaded"
    /\ query = NoQuery
    /\ list \in Lists
    /\ flip \in BOOLEAN
    /\ served = NoAnswer
    /\ call = NoCall
    /\ merkleRoot = Root(list)
    /\ owner = Deployer
    /\ admin = NoAdmin
    /\ enc = NoEncoding
    /\ bat = Unstarted
    /\ dash = NoLogs

\* proof requests and claim calls over every list
NextTree ==
    \/ \E a \in RequestAddresses, n \in Amounts : ProofRoute(a, n)
    \/ \E a \in Accounts, n \in Amounts : Claim(a, n)

SpecTree == InitTree /\ [][NextTree]_vars

\* ------------------------------------------------------------ leaf encoders
\* the widths of the two parts of a leaf, in hex characters: an address of
\* 20 bytes and a uint256 of 32 bytes
AddressChars == 40
AmountChars  == 64

\* zeroPad(value, 32) of the deploy script
AmountBytes  == 32

\* the hex characters, in lower and in upper case; texts are sequences of
\* characters
HexLower == <<"0", "1", "2", "3", "4", "5", "6", "7", "8", "9",
              "a", "b", "c", "d", "e", "f">>
HexUpper == <<"0", "1", "2", "3", "4", "5", "6", "7", "8", "9",
              "A", "B", "C", "D", "E", "F">>

IsHex(c)    == \E k \in 1..16 : HexLower[k] = c \/ HexUpper[k] = c
HexValue(c) == (CHOOSE k \in 1..16 : HexLower[k] = c \/ HexUpper[k] = c) - 1

\* BigInt(amount) / BigNumber.from(amount): the sign and the hex digits of
\* the magnitude, the first one lead and the others fill; zero is the one
\* digit 0
BigInts ==
    {bn \in [negative : BOOLEAN, digits : 1..MaxDigits,
             lead : {0, 1, 15}, fill : {0, 10}] :
        bn.lead = 0 => (bn.digits = 1 /\ ~bn.negative /\ bn.fill = 0)}

\* hex digit i of the magnitude, counted from the most significant
DigitOf(bn, i) == IF i = 1 THEN bn.lead ELSE bn.fill

\* the addresses passed in: the hex characters after 0x, of 19, 20 or 21
\* bytes, in lower, upper and mixed case
AddressLengths == {AddressChars - 2, AddressChars, AddressChars + 2}

AddressTexts ==
    {[i \in 1..n |-> p[((i - 1) % 2) + 1]] :
        n \in AddressLengths, p \in {<<"a", "7">>, <<"A", "7">>, <<"c", "F">>}}

\* bn.toString(16): the digits in lower case, after a minus sign if negative
toString16(bn) ==
    (IF bn.negative THEN <<"-">> ELSE <<>>)
    \o [i \in 1..bn.digits |-> HexLower[DigitOf(bn, i) + 1]]

\* text.padStart(width, pad): a longer text is left as it is
padStart(text, width, pad) ==
    IF Len(text) < width
    THEN [i \in 1..(width - Len(text)) |-> pad] \o text
    ELSE text

\* the number of hex characters text starts with
HexPrefix(text) ==
    LET other == {i \in 1..Len(text) : ~IsHex(text[i])}
    IN IF other = {} THEN Len(text)
       ELSE (CHOOSE i \in other : \A k \in other : i <= k) - 1

\* Buffer.from(text, 'hex'): one byte per pair of hex characters, a last
\* single character dropped, and everything from the first character that
\* is no hex character dropped
BufferFromHex(text) ==
    [k \in 1..(HexPrefix(text) \div 2) |->
        16 * HexValue(text[2 * k - 1]) + HexValue(text[2 * k])]

\* a proof server encodeLeaf that does not pad the amount
ServerEncodeLeafUnpadded(text, bn) ==
    [threw |-> FALSE,
     bytes |-> BufferFromHex(padStart(text, AddressChars, "0"))
                 \o BufferFromHex(toString16(bn))]

\* encodeLeaf(addr, amount) of the proof server, addr being 0x and text:
\* whether it throws, and the buffer it returns
ServerEncodeLeaf(text, bn) ==
    LET addrBuf   == BufferFromHex(padStart(text, AddressChars, "0"))
        amountHex == padStart(toString16(bn), AmountChars, "0")
        amountBuf == BufferFromHex(amountHex)
    IN [threw |-> FALSE, bytes |-> addrBuf \o amountBuf]

\* ethers.utils.arrayify of 0x and text: throws unless text is hex characters
\* of even length
arrayify(text) ==
    IF HexPrefix(text) < Len(text) \/ Len(text) % 2 = 1
    THEN [threw |-> TRUE, bytes |-> <<>>]
    ELSE [threw |-> FALSE, bytes |-> BufferFromHex(text)]

\* BigNumber.toHexString() without its 0x: an even number of digits, after a
\* minus sign if negative
toHexString(bn) ==
    (IF bn.negative THEN <<"-">> ELSE <<>>)
    \o (IF bn.digits % 2 = 1 THEN <<"0">> ELSE <<>>)
    \o [i \in 1..bn.digits |-> HexLower[DigitOf(bn, i) + 1]]

\* ethers.utils.zeroPad(value, length) of bytes that fit
zeroPad(bytes, length) == [i \in 1..(length - Len(bytes)) |-> 0] \o bytes

\* encodeLeaf(address, amount) of the deploy script and of the tests:
\* arrayify throws on a negative value, zeroPad on more than 32 bytes
DeployEncodeLeaf(text, bn) ==
    LET addressBytes == arrayify(text)
        value        == arrayify(toHexString(bn))
    IN IF addressBytes.threw \/ value.threw \/ Len(value.bytes) > AmountBytes
       THEN [threw |-> TRUE, bytes |-> <<>>]
       ELSE [threw |-> FALSE,
             bytes |-> addressBytes.bytes \o zeroPad(value.bytes, AmountBytes)]

\* abi.encodePacked(address, uint256) of the contract for the address 0x and
\* text of 20 bytes and an amount of at most 64 hex digits: the 20 bytes of
\* the address, then the amount as 32 bytes, most significant first
abiEncodePacked(text, bn) ==
    LET nibble(j) == IF j <= 64 - bn.digits THEN 0
                     ELSE DigitOf(bn, j - (64 - bn.digits))
    IN [k \in 1..20 |-> 16 * HexValue(text[2 * k - 1]) + HexValue(text[2 * k])]
       \o [k \in 1..32 |-> 16 * nibble(2 * k - 1) + nibble(2 * k)]

\* one evaluation of an encodeLeaf function; the functions are pure, so a
\* run evaluates one
EncodeLeaf(fn, text, bn) ==
    /\ enc = NoEncoding
    /\ LET r == IF fn = "server" THEN ServerEncodeLeaf(text, bn)
                ELSE DeployEncodeLeaf(text, bn)
       IN enc' = [fn |-> fn, address |-> Len(text), text |-> text, amount |-> bn,
                  threw |-> r.threw, length |-> Len(r.bytes), bytes |-> r.bytes]
    /\ UNCHANGED <<relayVars, claimed, treeVars, bat, dash>>

InitEncode ==
    /\ now = 1
    /\ usedNonces = {}
    /\ pendingTxs = <<>>
    /\ req = EmptyBag
    /\ tx = <<>>
    /\ nextHash = 1
    /\ claimed = {}
    /\ wallet = "w"
    /\ env = EnvNames
    /\ proc = "loaded"
    /\ query = NoQuery
    /\ list = WhitelistJson
    /\ flip = FALSE
    /\ served = NoAnswer
    /\ call = NoCall
    /\ merkleRoot = Root(list)
    /\ owner = Deployer
    /\ admin = NoAdmin
    /\ enc = NoEncoding
    /\ bat = Unstarted
    /\ dash = NoLogs

\* the encoders applied to every address length and amount
NextEncode ==
    \/ \E a \in AddressTexts, bn \in BigInts : EncodeLeaf("server", a, bn)
    \/ \E a \in AddressTexts, bn \in BigInts : EncodeLeaf("deploy", a, bn)

SpecEncode == InitEncode /\ [][NextEncode]_vars

\* ------------------------------------------------------ run_bot.bat launcher
\* the labels the file defines
Labels == {"run_once", "daily_schedule", "schedule", "test_telegram", "validate",
           "help", "invalid", "end"}

\* what the user can type at a prompt
Choices    == {"1", "2", "3", "4", "5", "6", "7", ""}
InputTexts == {"", "09:00", "25:99", "https://t", "2025-09-15 14:30:00", "x"}

\* the if ... goto lines after the menu: the label the choice jumps to
Dispatch(choice) ==
    CASE choice = "1" -> "run_once"
      [] choice = "2" -> "daily"
      [] choice = "3" -> "schedule"
      [] choice = "4" -> "test_telegram"
      [] choice = "5" -> "validate"
      [] choice = "6" -> "help"
      [] OTHER -> "invalid"

\* goto label: cmd.exe stops the batch file when the file has no such label
Goto(label) == IF label \in Labels THEN label ELSE "aborted"

\* the number of set /p lines of the block at a label
Prompts(label) ==
    CASE label = "daily_schedule" -> 1 [] label = "schedule" -> 2 [] OTHER -> 0

\* the option AsyafiraAirdropBot.exe is started with in the block at a label;
\* the block at invalid starts nothing
Command(label) ==
    CASE label = "run_once" -> "--run-once"
      [] label = "daily_schedule" -> "--daily-time"
      [] label = "schedule" -> "--run-datetime"
      [] label = "test_telegram" -> "--test-telegram"
      [] label = "validate" -> "--validate-config"
      [] label = "help" -> "--help"
      [] OTHER -> ""

\* echo Pilihan tidak valid!
InvalidChoice == "Pilihan tidak valid!"

\* the file is started: the menu is printed and the choice asked for
StartBat ==
    /\ bat = Unstarted
    /\ bat' = [pc |-> "prompt", choice |-> "", inputs |-> <<>>, ran |-> "", said |-> ""]
    /\ UNCHANGED <<relayVars, claimed, treeVars, enc, dash>>

\* set /p choice, then the if ... goto lines
Choose(choice) ==
    /\ bat.pc = "prompt"
    /\ bat' = [bat EXCEPT !.choice = choice, !.pc = Goto(Dispatch(choice))]
    /\ UNCHANGED <<relayVars, claimed, treeVars, enc, dash>>

\* the next set /p line of the block
Prompt(text) ==
    /\ bat.pc \in Labels
    /\ Len(bat.inputs) < Prompts(bat.pc)
    /\ bat' = [bat EXCEPT !.inputs = Append(@, text)]
    /\ UNCHANGED <<relayVars, claimed, treeVars, enc, dash>>

\* the rest of the block: the program is started or the message printed,
\* then pause and goto end
RunBlock ==
    /\ bat.pc \in Labels \ {"end"}
    /\ Len(bat.inputs) = Prompts(bat.pc)
    /\ bat' = [bat EXCEPT !.ran = Command(bat.pc),
                          !.said = IF bat.pc = "invalid" THEN InvalidChoice ELSE "",
                          !.pc = Goto("end")]
    /\ UNCHANGED <<relayVars, claimed, treeVars, enc, dash>>

\* the block at end: the closing message and the last pause
EndBat ==
    /\ bat.pc = "end"
    /\ bat' = [bat EXCEPT !.pc = "done"]
    /\ UNCHANGED <<relayVars, claimed, treeVars, enc, dash>>

InitBat ==
    /\ now = 1
    /\ usedNonces = {}
    /\ pendingTxs = <<>>
    /\ req = EmptyBag
    /\ tx = <<>>
    /\ nextHash = 1
    /\ claimed = {}
    /\ wallet = "w"
    /\ env = EnvNames
    /\ proc = "loaded"
    /\ query = NoQuery
    /\ list = WhitelistJson
    /\ flip = FALSE
    /\ served = NoAnswer
    /\ call = NoCall
    /\ merkleRoot = Root(list)
    /\ owner = Deployer
    /\ admin = NoAdmin
    /\ enc = NoEncoding
    /\ bat = Unstarted
    /\ dash = NoLogs

NextBat ==
    \/ StartBat
    \/ \E c \in Choices : Choose(c)
    \/ \E t \in InputTexts : Prompt(t)
    \/ RunBlock
    \/ EndBat

SpecBat == InitBat /\ [][NextBat]_vars

\* ------------------------------------------------------------ dashboard
\* "Keep only last 1000 entries"
KeepLast == 1000

\* a log as the server sends it, and one without a level
InfoLog    == [level |-> "info"]
NoLevelLog == [level |-> "undefined"]
Logs       == {InfoLog, NoLevelLog}

\* data.logs of an answer of /api/logs
Batches == UNION {[1..n -> Logs] : n \in 0..MaxBatch}

\* log.level.toUpperCase(): a TypeError when the log has no level
toUpperCase(level) == IF level = "info" THEN "INFO" ELSE level
Throws(log) == log.level = "undefined"

\* while (container.children.length > 1000)
\*     container.removeChild(container.firstChild)
RECURSIVE RemoveFirst(_)
RemoveFirst(children) ==
    IF Len(children) > KeepLast THEN RemoveFirst(Tail(children)) ELSE children

\* an addLogEntry that removes nothing
addLogEntryKeepsAll(d, log) ==
    IF Throws(log) THEN d
    ELSE [container |-> Append(d.container,
                            [n |-> d.arrived + 1,
                             level |-> toUpperCase(log.level)]),
          arrived |-> d.arrived + 1]

\* addLogEntry(log, scroll): nothing is appended when building the entry
\* throws; otherwise the entry is appended and the oldest entries are removed
\* while there are more than 1000. An entry carries its arrival number
addLogEntry(d, log) ==
    IF Throws(log) THEN d
    ELSE [container |-> RemoveFirst(Append(d.container,
                            [n |-> d.arrived + 1,
                             level |-> toUpperCase(log.level)])),
          arrived |-> d.arrived + 1]

\* (data.logs || []).forEach(log => this.addLogEntry(log, false)): the
\* exception of an entry ends the loop
RECURSIVE forEach(_, _)
forEach(d, logs) ==
    IF logs = <<>> \/ Throws(Head(logs)) THEN d
    ELSE forEach(addLogEntry(d, Head(logs)), Tail(logs))

\* socket.on('log_update', data => this.addLogEntry(data))
LogUpdate(log) ==
    /\ dash.arrived < MaxLogs
    /\ dash' = addLogEntry(dash, log)
    /\ UNCHANGED <<relayVars, claimed, treeVars, enc, bat>>

\* updateLogs(data), called when loadLogs has its answer: the container is
\* emptied and filled with data.logs
updateLogs(logs) ==
    /\ dash' = forEach(NoLogs, logs)
    /\ UNCHANGED <<relayVars, claimed, treeVars, enc, bat>>

InitDash ==
    /\ now = 1
    /\ usedNonces = {}
    /\ pendingTxs = <<>>
    /\ req = EmptyBag
    /\ tx = <<>>
    /\ nextHash = 1
    /\ claimed = {}
    /\ wallet = "w"
    /\ env = EnvNames
    /\ proc = "loaded"
    /\ query = NoQuery
    /\ list = WhitelistJson
    /\ flip = FALSE
    /\ served = NoAnswer
    /\ call = NoCall
    /\ merkleRoot = Root(list)
    /\ owner = Deployer
    /\ admin = NoAdmin
    /\ enc = NoEncoding
    /\ bat = Unstarted
    /\ dash = NoLogs

NextDash ==
    \/ \E log \in Logs : LogUpdate(log)
    \/ \E logs \in Batches : updateLogs(logs)

SpecDash == InitDash /\ [][NextDash]_vars

\* ------------------------------------------------ the contract and its owner
\* the revert reason of Ownable's onlyOwner, and the result of a call that
\* did not revert
RevertOwner == "Ownable: caller is not the owner"
Done        == "ok"

\* the accounts that call the contract
Callers == Accounts \cup {Deployer}

\* the list of a later epoch: the same accounts with other amounts
NewWhitelist == <<<<"a1", 2>>, <<"a2", 1>>>>

\* the roots the owner can publish, and the proofs a caller can hold: the
\* proofs of both trees for every account and amount, and the empty proof
Epochs == {WhitelistJson, NewWhitelist}
RootChoices == {Root(l) : l \in Epochs}
ProofChoices ==
    {getHexProof(l, Leaf(a, n)) : l \in Epochs, a \in Accounts, n \in Amounts}

\* a function that lacks the modifier
onlyOwnerMissing(caller) == Done

\* modifier onlyOwner of Ownable: the revert reason, or Done
onlyOwner(caller) == IF caller = owner THEN Done ELSE RevertOwner

\* Airdrop.setMerkleRoot(_root) called by caller
setMerkleRoot(caller, root) ==
    /\ admin' = [made |-> TRUE, op |-> "setMerkleRoot", caller |-> caller,
                 root |-> root, newOwner |-> "", result |-> onlyOwner(caller)]
    /\ merkleRoot' = IF onlyOwner(caller) = Done THEN root ELSE merkleRoot
    /\ UNCHANGED <<relayVars, toolVars, claimed, list, flip, served, call, owner>>

\* Ownable.transferOwnership(newOwner) called by caller
transferOwnership(caller, newOwner) ==
    /\ admin' = [made |-> TRUE, op |-> "transferOwnership", caller |-> caller,
                 root |-> <<>>, newOwner |-> newOwner, result |-> onlyOwner(caller)]
    /\ owner' = IF onlyOwner(caller) = Done THEN newOwner ELSE owner
    /\ UNCHANGED <<relayVars, toolVars, claimed, list, flip, served, call, merkleRoot>>

\* the contract deployed with the root of whitelist.json, which the proof
\* server serves
InitContract ==
    /\ now = 1
    /\ usedNonces = {}
    /\ pendingTxs = <<>>
    /\ req = EmptyBag
    /\ tx = <<>>
    /\ nextHash = 1
    /\ claimed = {}
    /\ wallet = "w"
    /\ env = EnvNames
    /\ proc = "loaded"
    /\ query = NoQuery
    /\ list = WhitelistJson
    /\ flip \in BOOLEAN
    /\ served = NoAnswer
    /\ call = NoCall
    /\ merkleRoot = Root(list)
    /\ owner = Deployer
    /\ admin = NoAdmin
    /\ enc = NoEncoding
    /\ bat = Unstarted
    /\ dash = NoLogs

\* proof requests, claims with any proof, and owner-only calls by anyone
NextContract ==
    \/ \E a \in RequestAddresses, n \in Amounts : ProofRoute(a, n)
    \/ \E a \in Accounts, n \in Amounts, p \in ProofChoices : ClaimWith(a, n, p)
    \/ \E c \in Callers, r \in RootChoices : setMerkleRoot(c, r)
    \/ \E c \in Callers, o \in Callers : transferOwnership(c, o)

SpecContract == InitContract /\ [][NextContract]_vars

\* the steps of the /relay-claim handler: its synchronous runs and the
\* settling of its awaited calls
HandlerStep ==
    \E q \in Handling :
        \/ RelayClaim(q) \/ ClaimedReturns(q) \/ ProofReturns(q, {NoProof})
        \/ ClaimReturns(q) \/ Return(q)

\* the callbacks of tx.wait()
WaitStep == \E h \in Hashes : WaitThen(h) \/ WaitCatch(h)

\* the event loop runs every callback that is ready, also one that had to
\* wait while other handlers ran, and every awaited call of the relayer
\* settles; nothing makes the ledger execute a transaction and nothing makes
\* a client send a request
Fairness ==
    /\ WF_vars(initializeProvider \/ listen)
    /\ SF_vars(HandlerStep)
    /\ SF_vars(WaitStep)
    /\ SF_vars(ReceiptReturns \/ QueryReturn)

SpecLive == InitRun /\ [][NextRun]_vars /\ Fairness

\* ===================================================================
\* Properties
\* ===================================================================
AllPresent(b) == \A f \in Fields : ~Falsy(b[f])

\* the requests at position pc, counted with their multiplicity
CountAt(pc, P(_)) ==
    LET S == {q \in Handling : q.pc = pc /\ P(q)}
        sum[T \in SUBSET S] ==
            IF T = {} THEN 0
            ELSE LET x == CHOOSE y \in T : TRUE IN CopiesIn(x, req) + sum[T \ {x}]
    IN sum[S]

\* the signed intents a caller holds for (recipient, amount, nonce) that
\* have not expired at time t
LiveIntents(recipient, amount, nonce, t) ==
    {Intent(m) : m \in {x \in Messages :
        /\ x.recipient = recipient /\ x.amount = amount /\ x.nonce = nonce
        /\ Uint256(x.deadline) >= t}}

\* C1: of the requests that carry the same signed intent and are handled
\* concurrently, at most one is at contract.claim (Submitted); the others
\* were rejected with 'Nonce already used'.
C1_ExactlyOneSubmitted ==
    \A q \in Handling :
        q.pc = "awaitClaim" =>
            CountAt("awaitClaim",
                    LAMBDA p : /\ p.nonce = q.nonce /\ p.recipient = q.recipient
                               /\ p.amount = q.amount) = 1

\* C2: while a forwarded transaction for recipient R is in flight (awaiting
\* contract.claim or present in pendingTxs) no second intent for R, carrying
\* another nonce, is forwarded.
C2_AtMostOncePerRecipient ==
    \A q \in Handling :
        q.pc = "awaitClaim" =>
            /\ \A p \in Handling :
                 (p.pc = "awaitClaim" /\ p.recipient = q.recipient) => p.nonce = q.nonce
            /\ \A h \in DOMAIN pendingTxs :
                 pendingTxs[h].recipient = q.recipient => tx[h].nonce = q.nonce

\* C3: the nonce of a confirmed transaction is in usedNonces in every later
\* state, and every later request carrying it is rejected as a replay.
C3_ConsumedNonceStays ==
    \A h \in DOMAIN tx :
        tx[h].st = "confirmed" =>
            /\ tx[h].nonce \in usedNonces
            /\ \A b \in IntentBodies :
                 (AllPresent(b) /\ b.nonce = tx[h].nonce /\ Uint256(b.deadline) >= now)
                     => Validate(b, now, usedNonces) = NonceUsed

\* C4: when contract.claim throws for a request with nonce n, the request is
\* answered with the failure, n is not in usedNonces afterwards, the request
\* leaves no pendingTxs entry, and the same intent, resubmitted before its
\* deadline, passes the checks again.
C4_RetryAfterSubmissionFailure ==
    [][\A q \in Handling :
         (q.pc = "awaitClaim" /\ Respond(q, FailedClaim)) =>
            /\ q.nonce \notin usedNonces'
            /\ pendingTxs' = pendingTxs
            /\ \A b \in LiveIntents(q.recipient, q.amount, q.nonce, now') :
                 Validate(b, now', usedNonces') = "ok"]_vars

\* C4 witness: a request was answered with the send failure and its nonce is free
C4_Witness ==
    \E q \in Handling :
        /\ q.pc = "responded" /\ q.resp = FailedClaim
        /\ q.nonce \notin usedNonces
        /\ usedNonces # {}

\* C5: a request with all five fields whose deadline is earlier than the
\* current time is answered 'Request expired'; usedNonces, pendingTxs and the
\* ledger are untouched and no call to the contract or the proof source starts.
C5_ExpiredRejected ==
    [][\A q \in Handling :
         (/\ q.pc = "received" /\ AllPresent(q.body)
          /\ Uint256(q.body.deadline) < now) =>
            /\ Respond(q, Expired)
            /\ UNCHANGED <<usedNonces, pendingTxs, tx, nextHash, claimed>>]_vars

\* C5 witness: an expired intent with a fresh nonce was rejected while another
\* nonce is in use
C5_Witness ==
    \E q \in Handling :
        /\ q.pc = "responded" /\ q.resp = Expired
        /\ q.nonce \notin usedNonces
        /\ usedNonces # {}

\* C6: a request answered 'Missing required fields', 'Nonce already used' or
\* 'Invalid signature' leaves usedNonces and pendingTxs as they were, and the
\* same body submitted again right away gets the same answer.
C6_RejectionLeavesState ==
    [][\A q \in Handling : \A text \in {MissingFields, NonceUsed, InvalidSig} :
         (q.pc = "received" /\ Respond(q, text)) =>
            /\ usedNonces' = usedNonces
            /\ pendingTxs' = pendingTxs
            /\ Validate(q.body, now', usedNonces') = text]_vars

\* C6 witness: a replay was rejected while its transaction is pending
C6_Witness ==
    \E q \in Handling :
        /\ q.pc = "responded" /\ q.resp = NonceUsed
        /\ q.nonce \in usedNonces
        /\ DOMAIN pendingTxs # {}

\* no request carrying nonce n is at contract.claim and no transaction was
\* sent for n
NotForwarded(n) ==
    /\ \A p \in Handling : p.pc = "awaitClaim" => p.nonce # n
    /\ \A h \in DOMAIN tx : tx[h].nonce # n

\* C7: when a request with nonce n ends because no proof could be obtained or
\* because the contract reports the recipient as claimed, and no request with
\* nonce n has been forwarded, then n is not in usedNonces afterwards,
\* pendingTxs is unchanged and the intent passes the checks when resubmitted.
C7_AbortLeavesNonceFree ==
    [][\A q \in Handling : \A text \in {NotEligible, FailedProof, AlreadyClaimed} :
         (/\ q.pc \in {"awaitClaimed", "awaitProof"} /\ Respond(q, text)
          /\ NotForwarded(q.nonce)) =>
            /\ q.nonce \notin usedNonces'
            /\ pendingTxs' = pendingTxs
            /\ \A b \in LiveIntents(q.recipient, q.amount, q.nonce, now') :
                 Validate(b, now', usedNonces') = "ok"]_vars

\* C7 witness: a request ended 'Already claimed' with its nonce free while
\* the other nonce is held
C7_Witness ==
    \E q \in Handling :
        /\ q.pc = "responded" /\ q.resp = AlreadyClaimed
        /\ NotForwarded(q.nonce)
        /\ q.nonce \notin usedNonces

\* C8: when the confirmation of transaction h, submitted with nonce n,
\* arrives, h is removed from pendingTxs and n is in usedNonces.
C8_ConfirmedConsumesNonce ==
    [][\A h \in DOMAIN tx :
         (tx[h].st = "mined" /\ tx'[h].st = "confirmed") =>
            /\ h \notin DOMAIN pendingTxs'
            /\ tx[h].nonce \in usedNonces']_vars

\* C9: when transaction h, submitted with nonce n, is rejected after the
\* acknowledgment, h is removed from pendingTxs, n is removed from usedNonces
\* and a request carrying n is no longer rejected as a replay.
C9_FailedReleasesNonce ==
    [][\A h \in DOMAIN tx :
         (tx[h].st = "reverted" /\ tx'[h].st = "failed") =>
            /\ h \in DOMAIN pendingTxs
            /\ h \notin DOMAIN pendingTxs'
            /\ tx[h].nonce \notin usedNonces'
            /\ \A b \in IntentBodies :
                 b.nonce = tx[h].nonce => Validate(b, now', usedNonces') # NonceUsed]_vars

\* C9 witness: a transaction failed, its entry is gone and its nonce is free
C9_Witness ==
    \E h \in DOMAIN tx :
        /\ tx[h].st = "failed"
        /\ h \notin DOMAIN pendingTxs
        /\ tx[h].nonce \notin usedNonces

\* C10: the nonce of a request is reserved before its signature is verified
\* and before its first external call: every request that waits for
\* contract.claimed, for the proof or for contract.claim has its nonce in
\* usedNonces.
C10_NonceReservedBeforeCalls ==
    \A q \in Handling :
        q.pc \in {"awaitClaimed", "awaitProof", "awaitClaim"} => q.nonce \in usedNonces

\* C11: contract.claim is called only with a proof that verifies the leaf of
\* (recipient, amount) against the root; an answer of the proof source that
\* carries a proof which does not verify is never forwarded.
C11_OnlyVerifiedProofForwarded ==
    \A q \in Handling :
        q.pc = "awaitClaim" =>
            MerkleVerify(q.proof, AddressOf(q.recipient), Uint256(q.amount))

\* the signature of body b is the recipient's signature over exactly
\* (recipient, amount, nonce, deadline) under the relayer's domain
SignedByRecipient(b) ==
    b.signature = SignTypedData(RelayerDomain, MessageOf(b), AddressOf(b.recipient))

\* C12: a request with all five fields whose signature is not the
\* recipient's over exactly its four fields under the relayer's domain is
\* answered with a rejection before the first external call: nothing is
\* forwarded, no state changes, and when its deadline has not passed and its
\* nonce is unused the answer is 'Invalid signature', also for a malformed
\* signature.
C12_BadSignatureNeverForwarded ==
    [][\A q \in Handling :
         (q.pc = "received" /\ AllPresent(q.body) /\ ~SignedByRecipient(q.body)) =>
            /\ \E text \in {Expired, NonceUsed, InvalidSig} : Respond(q, text)
            /\ (Uint256(q.body.deadline) >= now /\ q.body.nonce \notin usedNonces)
                  => Respond(q, InvalidSig)
            /\ UNCHANGED <<usedNonces, pendingTxs, tx, nextHash, claimed>>]_vars

\* C12 witness: a request was answered 'Invalid signature' after another
\* intent had been forwarded
C12_Witness ==
    \E q \in Handling :
        /\ q.pc = "responded" /\ q.resp = InvalidSig
        /\ DOMAIN tx # {}

\* the domains that differ from the relayer's in at least one field
OtherDomains == ClientDomains \ {RelayerDomain}

\* C13: a signature made by the recipient over (recipient, amount, nonce,
\* deadline) under a domain that differs from the relayer's domain in name,
\* version, chainId or verifyingContract is rejected by verifySignature, and
\* the request that carries it is answered 'Invalid signature' when its nonce
\* is unused.
C13_DomainIsolation ==
    [][\A q \in Handling : \A d \in OtherDomains :
         (/\ q.pc = "received"
          /\ q.body.signature
                = SignTypedData(d, MessageOf(q.body), AddressOf(q.body.recipient))) =>
            /\ ~verifySignature(MessageOf(q.body), q.body.signature, q.body.recipient)
            /\ \E text \in {NonceUsed, InvalidSig} : Respond(q, text)
            /\ q.body.nonce \notin usedNonces => Respond(q, InvalidSig)]_vars

\* C13 witness: a relayer running with the default chain id has rejected a
\* signature
C13_Witness ==
    \E q \in Handling :
        /\ q.pc = "responded" /\ q.resp = InvalidSig
        /\ RelayerDomain.chainId = 1337

\* the rejections of a transient failure: the proof source or the ledger
\* cannot be reached
TransientRejections ==
    {ProofOutcome(Unreachable), FailedClaimed, FailedClaim}

\* C14: the rejection of a request whose (recipient, amount) the proof server
\* reports as not listed differs from the rejection for missing fields and
\* from the rejections of a transient failure, and is not the proof server's
\* own error text.
C14_CausesDistinguished ==
    \A q \in Handling :
        (/\ q.pc = "awaitProof"
         /\ <<AddressOf(q.recipient), Uint256(q.amount)>> \notin whitelist) =>
            LET text == ProofOutcome(ProofServer(AddressOf(q.recipient),
                                                 Uint256(q.amount)))
            IN /\ text # MissingFields
               /\ text \notin TransientRejections
               /\ text # ProofServerError

\* C15: every entry stored in pendingTxs is eventually removed, and unless
\* its transaction was confirmed its nonce is then free, also when the ledger
\* never executes the transaction.
C15_PendingEventuallyCleared ==
    \A h \in Hashes :
        (h \in DOMAIN pendingTxs) ~>
            (/\ h \notin DOMAIN pendingTxs
             /\ (h \in DOMAIN tx /\ tx[h].st # "confirmed")
                   => tx[h].nonce \notin usedNonces)

\* the status of a transaction the relayer has sent: pending until one of
\* the tx.wait() callbacks has run, then its outcome
Outcome(h) ==
    IF tx[h].st \in {"sent", "mined", "reverted"} THEN "pending" ELSE tx[h].st

\* C16 as stated: every answer of GET /tx-status for a hash that
\* /relay-claim had returned reports 'pending' until the outcome is
\* handled, then 'confirmed' or 'failed'; never anything else.
C16_StatusTracksOutcome ==
    (query.pc = "responded" /\ query.returned) =>
        query.status = Outcome(query.hash)

\* C16 amended: the answer is 'pending' until the outcome is handled; after
\* that it is 'confirmed' or 'failed' as the outcome was, or the 500 'Failed
\* to check transaction status' when the receipt cannot be fetched; it is
\* never 'not_found'.
C16_StatusTracksOutcomeOrError ==
    (query.pc = "responded" /\ query.returned) =>
        \/ query.status = Outcome(query.hash)
        \/ /\ query.status = StatusError
           /\ Outcome(query.hash) # "pending"

\* C16 witness: the status of a failed transaction was reported as 'failed'
C16_Witness ==
    /\ query.pc = "responded"
    /\ query.returned
    /\ query.status = "failed"

\* C17: when the relayer key, the contract address, the chain id or the
\* verifying address is not set, the relayer never listens and never handles
\* a /relay-claim request.
C17_NoStartWithoutConfig ==
    (EnvNames \ env # {}) => (proc # "listening" /\ req = EmptyBag)

\* the pair the last /proof request asked for
Asked == <<served.address, served.amount>>

\* list l holds an entry for the account of address text a with amount n
Listed(l, a, n) ==
    \E i \in 1..Len(l) : AddressBytes(l[i][1]) = AddressBytes(a) /\ l[i][2] = n

\* the last claim call was sent by the asked address for the asked amount
CalledAsAsked == call.made /\ call.sender = served.address /\ call.amount = served.amount

\* C18: for every list (odd sizes included) and every entry of it, the proof
\* server produces a proof, the sort-then-hash fold of that proof from the
\* entry's leaf gives the root, and a claim sent by the entry's address with
\* its amount and that proof passes the contract's proof check.
C18_ProofRoundTrip ==
    (served # NoAnswer /\ Listed(list, Asked[1], Asked[2])) =>
        /\ served.status = 200
        /\ MerkleProofVerify(served.proof, merkleRoot, Leaf(Asked[1], Asked[2]))
        /\ CalledAsAsked => call.result \in {Claimed, RevertClaimed}

\* C18 witness: in a list of three entries the last one, whose leaf is
\* carried up unpaired, has claimed with its one-sibling proof
C18_Witness ==
    /\ Len(list) = 3
    /\ Leaf(Asked[1], Asked[2]) = Leaves(list)[3]
    /\ Leaves(list)[1] # Leaves(list)[3] /\ Leaves(list)[2] # Leaves(list)[3]
    /\ Len(served.proof) = 1
    /\ CalledAsAsked /\ call.result = Claimed

\* every digest of the tree over l
Nodes(l) ==
    LET ls == Layers(Leaves(l))
    IN UNION {{ls[k][i] : i \in 1..Len(ls[k])} : k \in 1..Len(ls)}

\* the proofs of at most MaxList - 1 digests, each a digest of the tree or
\* the leaf of e itself
BoundedProofs(l, e) ==
    UNION {[1..k -> Nodes(l) \cup {ContractLeaf(e[1], e[2])}] : k \in 0..(MaxList - 1)}

\* C19: a claim for an (address, amount) that is not an entry of the list
\* never passes, whichever served proof it reuses; and for a pair the proof
\* server reports as not listed no proof of bounded length folds to the root
\* (list and root stay as they are once claims are sent).
C19_Soundness ==
    /\ (call.made /\ call.result = Claimed)
          => Listed(list, call.sender, call.amount)
    /\ (served.status = 404 /\ ~call.made) =>
          \A p \in BoundedProofs(list, Asked) :
              ~MerkleProofVerify(p, merkleRoot, ContractLeaf(Asked[1], Asked[2]))

\* C19 witness: the proof of a listed entry was reused by the same address
\* with another amount, and the claim reverted with 'Invalid proof'
C19_Witness ==
    /\ served.status = 200
    /\ call.made /\ call.sender = served.address /\ call.amount # served.amount
    /\ ~Listed(list, call.sender, call.amount)
    /\ call.result = RevertProof

\* C20: for a list of exactly one entry the root is the digest of the entry's
\* encoding, the proof served for the entry is the empty sequence, and the
\* empty proof verifies, in the fold and in the contract.
C20_SingleLeaf ==
    Len(list) = 1 =>
        /\ merkleRoot = keccak256(encodeLeaf(list[1][1], list[1][2]))
        /\ served.status = 200 => served.proof = <<>>
        /\ MerkleProofVerify(<<>>, merkleRoot, Leaf(list[1][1], list[1][2]))
        /\ (call.made /\ Listed(list, call.sender, call.amount)
              /\ served.proof = <<>>) => call.result \in {Claimed, RevertClaimed}

\* C20 witness: the only entry of a list has claimed with the empty proof
C20_Witness ==
    /\ Len(list) = 1
    /\ served.status = 200 /\ served.proof = <<>>
    /\ CalledAsAsked /\ call.result = Claimed

\* the permutations of 1..n, and list l rearranged by permutation p
Orders(n) ==
    {p \in [1..n -> 1..n] : \A i, j \in 1..n : p[i] = p[j] => i = j}
Permuted(l, p) == [i \in 1..Len(l) |-> l[p[i]]]

\* list l with the entries of its i-th pair of neighbours exchanged
SwapPair(l, i) ==
    [k \in 1..Len(l) |->
        IF k = 2 * i - 1 THEN l[2 * i] ELSE IF k = 2 * i THEN l[2 * i - 1] ELSE l[k]]

\* the tree was built and deployed, nothing was asked of it yet (the list
\* never changes afterwards)
Built == served = NoAnswer /\ ~call.made

\* C21 (as stated): for every list and every permutation of it, the tree
\* built over the permutation has the root of the tree built over the list.
C21_RootOrderIndependent ==
    Built => \A p \in Orders(Len(list)) : Root(Permuted(list, p)) = Root(list)

\* C21 (amended): the root is the same for every permutation of a list of at
\* most two entries, and for a longer list it is unchanged when the two
\* entries of a pair of neighbours (positions 2i-1 and 2i) are exchanged.
C21_RootPairOrderIndependent ==
    Built =>
        /\ Len(list) <= 2 =>
               \A p \in Orders(Len(list)) : Root(Permuted(list, p)) = Root(list)
        /\ \A i \in 1..(Len(list) \div 2) : Root(SwapPair(list, i)) = Root(list)

\* C21 witness: a list of three entries whose first two differ, deployed with
\* the root the list with these two exchanged has as well
C21_Witness ==
    /\ Built
    /\ Len(list) = 3 /\ list[1] # list[2]
    /\ Root(SwapPair(list, 1)) = merkleRoot

\* C22: /proof answers 200 with a proof exactly when the list holds an entry
\* with the requested address, whatever the case of either text, and the
\* requested amount; every other request, for an unknown address or for a
\* listed address with another amount, gets the one 404 answer.
C22_ProofIffListed ==
    served # NoAnswer =>
        /\ served.status = 200 <=> Listed(list, served.param, served.amount)
        /\ served.status # 200 =>
              /\ served.status = 404
              /\ served.error = NotFound
              /\ served.proof = <<>>

\* C22 witness: an address listed in lower case was requested in upper case
\* and a proof of one sibling was served
C22_Witness ==
    /\ served.status = 200 /\ served.param = "A1"
    /\ \E i \in 1..Len(list) : list[i] = <<"a1", served.amount>>
    /\ Len(served.proof) = 1

\* C23: in every state, also after the owner has published a new root with
\* setMerkleRoot, a proof the proof server serves for an entry verifies, at
\* the time it is served, against the root the contract stores then.
C23_ServedProofMatchesRoot ==
    [][(served' # served /\ served'.status = 200) =>
          MerkleProofVerify(served'.proof, merkleRoot',
                            Leaf(served'.address, served'.amount))]_vars

\* the last claim call of the step: a step that changes call is a claim
ClaimStep == call' # call

\* the proof of the claim call of the step verifies for its caller and amount
\* against the stored root
ProofVerifies ==
    MerkleProofVerify(call'.proof, merkleRoot,
                      ContractLeaf(call'.sender, call'.amount))

\* C24: a claim by an account whose flag is not set, with a proof that
\* verifies the leaf of (account, amount) against merkleRoot, succeeds, sets
\* the flag of the account and emits Claimed(account, amount).
C24_ValidClaimSucceeds ==
    [][(ClaimStep /\ call'.sender \notin claimed /\ ProofVerifies) =>
          /\ call'.result = Claimed
          /\ call'.sender \in claimed'
          /\ call'.event = ClaimedEvent(call'.sender, call'.amount)]_vars

\* C24 witness: after the owner published the root of the new list, a2 has
\* claimed its new amount with the proof of the new tree
C24_Witness ==
    /\ merkleRoot # Root(list)
    /\ call.made /\ call.sender = "a2" /\ call.amount = 1
    /\ call.proof = getHexProof(NewWhitelist, Leaf("a2", 1))
    /\ call.result = Claimed /\ "a2" \in claimed
    /\ call.event = ClaimedEvent("a2", 1)

\* C25: a claim succeeds only for an account whose flag is not set and sets
\* that flag; a flag that is set is never cleared, by claims or by
\* setMerkleRoot; and a claim by an account whose flag is set reverts with
\* 'Already claimed' whatever its proof and the stored root are. So at most
\* one claim of an account ever succeeds.
C25_ExactlyOncePerAccount ==
    [][/\ claimed \subseteq claimed'
       /\ (ClaimStep /\ call'.result = Claimed) =>
             (call'.sender \notin claimed /\ call'.sender \in claimed')
       /\ (ClaimStep /\ call'.sender \in claimed) =>
             (call'.result = RevertClaimed /\ call'.event = NoEvent
              /\ claimed' = claimed)]_vars

\* C25 witness: a1 has claimed, the owner has published the new root, and the
\* claim of a1 with a proof that verifies against the new root has reverted
\* with 'Already claimed'
C25_Witness ==
    /\ "a1" \in claimed /\ merkleRoot = Root(NewWhitelist) /\ merkleRoot # Root(list)
    /\ call.made /\ call.sender = "a1" /\ call.result = RevertClaimed
    /\ MerkleProofVerify(call.proof, merkleRoot, ContractLeaf("a1", call.amount))

\* C26: a claim of an account whose flag is not set, with a proof that does
\* not verify the leaf of (caller, amount) against merkleRoot, reverts with
\* 'Invalid proof', leaves every flag as it was and emits no event.
C26_BadProofReverts ==
    [][(ClaimStep /\ call'.sender \notin claimed /\ ~ProofVerifies) =>
          /\ call'.result = RevertProof
          /\ claimed' = claimed
          /\ call'.event = NoEvent]_vars

\* C26 witness: a1 sent the proof of the entry of a2 with its own amount and
\* the call reverted with 'Invalid proof'
C26_Witness ==
    /\ call.made /\ call.sender = "a1" /\ call.amount = 1
    /\ call.proof = getHexProof(list, Leaf("a2", 2)) /\ merkleRoot = Root(list)
    /\ call.result = RevertProof /\ "a1" \notin claimed

\* C27: a claim that succeeds adds the flag of its caller and changes nothing
\* else of the contract: merkleRoot, owner and every other flag stay; and
\* whether it succeeds does not depend on the flags of other accounts.
C27_ClaimFrame ==
    [][/\ (ClaimStep /\ call'.result = Claimed) =>
             /\ claimed' = claimed \cup {call'.sender}
             /\ merkleRoot' = merkleRoot
             /\ owner' = owner
       /\ (ClaimStep /\ call'.sender \notin claimed /\ ProofVerifies
              /\ claimed # {}) => call'.result = Claimed]_vars

\* C27 witness: a2 claimed first and a1 after it, under the deployed root and
\* the first owner
C27_Witness ==
    /\ claimed = {"a1", "a2"}
    /\ call.sender = "a1" /\ call.result = Claimed
    /\ merkleRoot = Root(list) /\ owner = Deployer

\* a step that calls an owner-only function
AdminStep == admin' # admin

\* C28: merkleRoot changes only in a setMerkleRoot call of the account that
\* is the owner, and then to the root given; a setMerkleRoot call of any
\* other account reverts and leaves merkleRoot as it was.
C28_RootOnlyByOwner ==
    [][/\ merkleRoot' # merkleRoot =>
             /\ admin'.op = "setMerkleRoot" /\ admin'.caller = owner
             /\ admin'.result = Done /\ merkleRoot' = admin'.root
       /\ (AdminStep /\ admin'.op = "setMerkleRoot") =>
             IF admin'.caller = owner
             THEN admin'.result = Done /\ merkleRoot' = admin'.root
             ELSE admin'.result = RevertOwner /\ merkleRoot' = merkleRoot]_vars

\* C28 witness: the deployer handed the contract to a1, then tried to publish
\* another root and was refused
C28_Witness ==
    /\ owner = "a1"
    /\ admin.op = "setMerkleRoot" /\ admin.caller = Deployer
    /\ admin.root # merkleRoot /\ admin.result = RevertOwner

\* the amount is larger than the 32-byte unsigned integer holds
Overflows(bn) == ~bn.negative /\ bn.digits > AmountChars

\* C29: for an address of 20 bytes and an amount that is not negative, an
\* encodeLeaf function fails when the amount is outside the 32-byte unsigned
\* range, and whatever it returns is 20 + 32 bytes long.
C29_OverflowFails ==
    (enc.fn # "" /\ enc.address = AddressChars /\ ~enc.amount.negative) =>
        /\ Overflows(enc.amount) => enc.threw
        /\ ~enc.threw => enc.length = AddressChars \div 2 + AmountChars \div 2

\* the option the guide documents for each choice of the menu
Documented(choice) ==
    CASE choice = "1" -> "--run-once"
      [] choice = "2" -> "--daily-time"
      [] choice = "3" -> "--run-datetime"
      [] choice = "4" -> "--test-telegram"
      [] choice = "5" -> "--validate-config"
      [] choice = "6" -> "--help"
      [] OTHER -> ""

\* C30: once a choice is made the launcher never stops short of its end, and
\* when it has ended it has started the program with the option documented
\* for the choice (after one prompt, for the time, when the choice is 2), or,
\* for any other input, started nothing and printed the invalid-choice
\* message.
C30_MenuReachesDocumentedAction ==
    /\ bat.pc # "aborted"
    /\ bat.pc = "done" =>
          /\ bat.ran = Documented(bat.choice)
          /\ bat.choice = "2" => Len(bat.inputs) = 1
          /\ bat.choice \notin {"1", "2", "3", "4", "5", "6"} => bat.said = InvalidChoice

Invoking == {q \in BagToSet(req') : q.pc = "awaitClaim" /\ q \notin BagToSet(req)}

\* C32: contract.claim is never invoked for an intent at a time later than
\* the deadline of the intent, also when time has advanced while the request
\* was suspended on the claimed check or on the proof fetch.
C32_NoClaimAfterDeadline ==
    [][\A q \in Invoking : now <= Uint256(q.deadline)]_vars

\* request q fails in this step before it has added its nonce: its await of
\* contract.claimed or of the proof fetch throws and the catch block answers
Failing(q) ==
    /\ q.pc \in {"awaitClaimed", "awaitProof"}
    /\ CopiesIn(q, req') < CopiesIn(q, req)
    /\ \E r \in BagToSet(req') : /\ r.pc = "responded"
                                 /\ r.resp \in {FailedClaimed, FailedProof}
                                 /\ r.nonce = q.nonce

\* C33: the error handler of a request removes a nonce from usedNonces only
\* if this same request added it: a request that fails before it has added
\* its nonce leaves usedNonces as it was.
C33_ReleasesOnlyOwnNonce ==
    [][\A q \in Handling : Failing(q) => usedNonces' = usedNonces]_vars

\* C34: the nonce of every transaction that awaits its submission result or
\* is recorded in pendingTxs is in usedNonces.
C34_InFlightNonceReserved ==
    /\ \A q \in Handling : q.pc = "awaitClaim" => q.nonce \in usedNonces
    /\ \A h \in DOMAIN pendingTxs : tx[h].nonce \in usedNonces

\* the requests that pass the synchronous checks in this step
Passing == {q \in BagToSet(req') : q.pc = "awaitClaimed" /\ q \notin BagToSet(req)}

\* C35: the replay guard identifies nonces by their uint256 value: a request
\* whose nonce denotes the same number as a nonce in usedNonces, in whatever
\* representation, does not pass the nonce check.
C35_NonceComparedByValue ==
    [][\A q \in Passing :
          \A n \in usedNonces : Uint256(n) # Uint256(q.nonce)]_vars

\* the requests answered 'Missing required fields' in this step
Rejected ==
    {q \in Handling : /\ q.pc = "received"
                      /\ CopiesIn(q, req') < CopiesIn(q, req)
                      /\ \E r \in BagToSet(req') : /\ r.pc = "responded"
                                                   /\ r.resp = MissingFields}

\* C37: a request is answered 'Missing required fields' only when one of the
\* five fields is absent from its body; nonce 0 and amount 0 are present
\* values and pass the field validation.
C37_MissingOnlyWhenAbsent ==
    [][\A q \in Rejected : \E f \in Fields : q.body[f] = Undefined]_vars

\* C36: for every address of 20 bytes, in any letter case, and every amount
\* from 0 to 2^256 - 1, the encodeLeaf of the proof server and the one of the
\* deploy script and tests both return, without throwing, the 52 bytes of
\* abi.encodePacked(address, uint256), so the two agree.
C36_EncodersAgree ==
    ( /\ enc.fn # ""
      /\ enc.address = AddressChars
      /\ ~enc.amount.negative
      /\ enc.amount.digits <= AmountChars ) =>
        /\ ~enc.threw
        /\ enc.bytes = abiEncodePacked(enc.text, enc.amount)
        /\ ServerEncodeLeaf(enc.text, enc.amount)
             = DeployEncodeLeaf(enc.text, enc.amount)

\* the proof server has encoded an upper-case address with an amount of 63
\* hex digits as the 52 bytes of the contract
C36_Witness ==
    /\ enc.fn = "server"
    /\ enc.address = AddressChars
    /\ enc.text[1] = "A"
    /\ ~enc.amount.negative
    /\ enc.amount.digits = AmountChars - 1
    /\ enc.length = 52
    /\ enc.bytes = abiEncodePacked(enc.text, enc.amount)

\* C38: after any sequence of log_update events and reloads the log
\* container holds at most 1000 entries, and they are the most recently
\* appended ones, in the order in which they arrived.
C38_LastThousandInOrder ==
    LET c == dash.container
    IN /\ Len(c) <= KeepLast
       /\ \A i \in 1..Len(c) : c[i].n = dash.arrived - Len(c) + i

\* the container is full and its oldest entries have been removed
C38_Witness ==
    /\ Len(dash.container) = KeepLast
    /\ dash.arrived > KeepLast
    /\ dash.container[1].n = dash.arrived - KeepLast + 1

====
